---- MODULE Spec2Model ----
(***************************************************************************)
(* Model of the truth-table generator of src/main.ts: generateRPN (the     *)
(* infix-to-postfix compiler with one pending-operator stack per           *)
(* parenthesis level) followed by generateTruthTable (header synthesis,    *)
(* row enumeration and numeric evaluation of the postfix program).         *)
(* A proposition is a sequence of one-character strings.                   *)
(***************************************************************************)
EXTENDS Integers, Sequences, FiniteSets, TLC

VARIABLES proposition, filteredProp, pc, i, rpn, pendingOperations, parenLevel,
          header, convertedRPNData, values, runNumber, operatingStack, tokIdx,
          row, table

vars == <<proposition, filteredProp, pc, i, rpn, pendingOperations, parenLevel,
          header, convertedRPNData, values, runNumber, operatingStack, tokIdx,
          row, table>>

compilerVars == <<proposition, filteredProp, rpn, pendingOperations, parenLevel, i>>

----------------------------------------------------------------------------
(* Bounds of the model *)

\* longest proposition of the exhaustive enumeration
MaxLen == 4

\* characters the enumerated propositions are built from
Alphabet == {"p", "q", "~", "&", "|", "^", ">", "(", ")", " "}

\* the documented worked example (with ~ for negation, as the code reads it)
WorkedExample ==
    <<"p", "&", "q", "|", "~", "(", "r", ">", "s", ")", "<", "t", "|",
      "(", "~", "q", "^", "~", "s", ")">>

\* propositions named in the documentation, beyond the enumeration
DocumentedInputs ==
    { WorkedExample,
      <<"(", "p", "&", "q">>,
      <<"(", "p", ")", "&", "q">>,
      <<"(", "(", "p", "&", "q", ")", ")">>,
      <<"p", ">", "q", ">", "r">>,
      <<"p", "|", "q", "^", "r">>,
      <<"p", "<", "q", "<", "r", "<", "s">>,
      <<"p", "&", "(", "q", "|", "r">>,
      <<"1", "&", "p">>,
      <<"p", "&", "1">>,
      <<"2", "|", "~", "1">>,
      <<"~", "(", "p", "^", "q", ")", "<", "(", "p", ">", "q", ")">>,
      <<"(", "p", "&", "q", ")", "|", "(", "r", ")">>,
      <<" ", "p", "&", "q", " ">> }

Inputs == UNION { [1..n -> Alphabet] : n \in 0..MaxLen } \cup DocumentedInputs

----------------------------------------------------------------------------
(* The operator table *)

OperatorSymbols == {"~", "&", "|", "^", ">", "<"}

\* the table with the priorities of & and | exchanged
priorityAndOrExchanged(op) ==
    CASE op = "~" -> 5
      [] op = "&" -> 3
      [] op = "|" -> 4
      [] op = "^" -> 3
      [] op = ">" -> 2
      [] op = "<" -> 1

priority(op) ==
    CASE op = "~" -> 5
      [] op = "&" -> 4
      [] op = "|" -> 3
      [] op = "^" -> 3
      [] op = ">" -> 2
      [] op = "<" -> 1

latex(op) ==
    CASE op = "~" -> "\\neg{}"
      [] op = "&" -> "\\land{}"
      [] op = "|" -> "\\lor{}"
      [] op = "^" -> "\\oplus{}"
      [] op = ">" -> "\\implies{}"
      [] op = "<" -> "\\iff{}"

----------------------------------------------------------------------------
(* Helpers on sequences *)

Last(s) == s[Len(s)]
Front(s) == SubSeq(s, 1, Len(s) - 1)

\* the drain emitting a stack bottom first
drainBottomFirst(s) == s

RECURSIVE Reverse(_)
Reverse(s) == IF s = <<>> THEN <<>> ELSE <<Last(s)>> \o Reverse(Front(s))

\* String.prototype.trim: whitespace is removed at both ends only
WhiteSpace == {" "}

RECURSIVE TrimStart(_)
TrimStart(s) ==
    IF s # <<>> /\ Head(s) \in WhiteSpace THEN TrimStart(Tail(s)) ELSE s

RECURSIVE TrimEnd(_)
TrimEnd(s) ==
    IF s # <<>> /\ Last(s) \in WhiteSpace THEN TrimEnd(Front(s)) ELSE s

trim(s) == TrimEnd(TrimStart(s))

\* "var" + n, for the variable counts the modelled propositions reach
codeVarName(n) ==
    <<"var1", "var2", "var3", "var4", "var5", "var6", "var7", "var8", "var9">>[n]

----------------------------------------------------------------------------
(* generateRPN *)

emptyRPN ==
    [ data |-> <<>>,
      codeVars |-> <<>>,
      mathToCodeVars |-> <<>>,
      codeToMathVars |-> <<>>,
      variableCount |-> 0 ]

\* pendingOperations[level] is undefined when the array has no such index
defined(po, level) == level \in DOMAIN po

\* pendingOperations[level] = stack
assign(po, level, stack) ==
    [ l \in DOMAIN po \cup {level} |-> IF l = level THEN stack ELSE po[l] ]

\* the pop loop comparing with >= instead of >
RECURSIVE popCountNotStrict(_, _)
popCountNotStrict(stack, tok) ==
    IF Len(stack) > 0 /\ priority(Last(stack)) >= priority(tok)
    THEN 1 + popCountNotStrict(Front(stack), tok)
    ELSE 0

\* number of top-of-stack operators the loop of an operator token pops
RECURSIVE popCount(_, _)
popCount(stack, tok) ==
    IF Len(stack) > 0 /\ priority(Last(stack)) > priority(tok)
    THEN 1 + popCount(Front(stack), tok)
    ELSE 0

token == filteredProp[i]

Init ==
    /\ proposition \in Inputs
    /\ filteredProp = trim(proposition)
    /\ pc = "scan"
    /\ i = 1
    /\ rpn = emptyRPN
    /\ pendingOperations = [ l \in {0} |-> <<>> ]
    /\ parenLevel = 0
    /\ header = [ variables |-> <<>>, labels |-> <<>> ]
    /\ convertedRPNData = <<>>
    /\ values = <<>>
    /\ runNumber = 0
    /\ operatingStack = <<>>
    /\ tokIdx = 1
    /\ row = [ assignment |-> <<>>, computed |-> <<>> ]
    /\ table = <<>>

tableVars == <<header, convertedRPNData, values, runNumber, operatingStack,
               tokIdx, row, table>>

ScanOpenParen ==
    /\ pc = "scan" /\ i <= Len(filteredProp)
    /\ token = "("
    /\ parenLevel' = parenLevel + 1
    /\ i' = i + 1
    /\ UNCHANGED <<proposition, filteredProp, pc, rpn, pendingOperations, tableVars>>

\* reading .length of an undefined stack throws a TypeError
ScanCloseParenThrows ==
    /\ pc = "scan" /\ i <= Len(filteredProp)
    /\ token = ")"
    /\ ~defined(pendingOperations, parenLevel)
    /\ pc' = "threw"
    /\ UNCHANGED <<proposition, filteredProp, i, rpn, pendingOperations, parenLevel, tableVars>>

\* the ) branch popping one operator where the code loops
ScanCloseParenSinglePop ==
    /\ pc = "scan" /\ i <= Len(filteredProp)
    /\ token = ")"
    /\ defined(pendingOperations, parenLevel)
    /\ LET stack == pendingOperations[parenLevel]
       IN IF Len(stack) > 0
          THEN /\ rpn' = [rpn EXCEPT !.data = Append(@, Last(stack))]
               /\ pendingOperations' = assign(pendingOperations, parenLevel, Front(stack))
          ELSE UNCHANGED <<rpn, pendingOperations>>
    /\ parenLevel' = parenLevel - 1
    /\ i' = i + 1
    /\ UNCHANGED <<proposition, filteredProp, pc, tableVars>>

ScanCloseParen ==
    /\ pc = "scan" /\ i <= Len(filteredProp)
    /\ token = ")"
    /\ defined(pendingOperations, parenLevel)
    /\ rpn' = [rpn EXCEPT !.data = @ \o Reverse(pendingOperations[parenLevel])]
    /\ pendingOperations' = assign(pendingOperations, parenLevel, <<>>)
    /\ parenLevel' = parenLevel - 1
    /\ i' = i + 1
    /\ UNCHANGED <<proposition, filteredProp, pc, tableVars>>

ScanOperatorFirst ==
    /\ pc = "scan" /\ i <= Len(filteredProp)
    /\ token \in OperatorSymbols
    /\ IF defined(pendingOperations, parenLevel)
       THEN Len(pendingOperations[parenLevel]) = 0
       ELSE TRUE
    /\ pendingOperations' = assign(pendingOperations, parenLevel, <<token>>)
    /\ i' = i + 1
    /\ UNCHANGED <<proposition, filteredProp, pc, rpn, parenLevel, tableVars>>

ScanOperator ==
    /\ pc = "scan" /\ i <= Len(filteredProp)
    /\ token \in OperatorSymbols
    /\ defined(pendingOperations, parenLevel)
    /\ Len(pendingOperations[parenLevel]) > 0
    /\ LET stack == pendingOperations[parenLevel]
           n == popCount(stack, token)
           kept == SubSeq(stack, 1, Len(stack) - n)
           popped == SubSeq(stack, Len(stack) - n + 1, Len(stack))
       IN /\ rpn' = [rpn EXCEPT !.data = @ \o Reverse(popped)]
          /\ pendingOperations' =
                 assign(pendingOperations, parenLevel, Append(kept, token))
    /\ i' = i + 1
    /\ UNCHANGED <<proposition, filteredProp, pc, parenLevel, tableVars>>

\* the variable branch without the lookup of an already known symbol
withVariableAlwaysNew(r, tok) ==
    LET codeVar == codeVarName(r.variableCount + 1)
        r1 == [ r EXCEPT
                  !.variableCount = @ + 1,
                  !.codeVars = Append(@, codeVar),
                  !.mathToCodeVars =
                      [ k \in DOMAIN @ \cup {tok} |->
                          IF k = tok THEN codeVar ELSE @[k] ],
                  !.codeToMathVars =
                      [ k \in DOMAIN @ \cup {codeVar} |->
                          IF k = codeVar THEN tok ELSE @[k] ] ]
    IN [ r1 EXCEPT !.data = Append(@, r1.mathToCodeVars[tok]) ]

\* the rpn record after a variable token
withVariable(r, tok) ==
    LET known == tok \in DOMAIN r.mathToCodeVars
        codeVar == codeVarName(r.variableCount + 1)
        r1 == IF known THEN r
              ELSE [ r EXCEPT
                       !.variableCount = @ + 1,
                       !.codeVars = Append(@, codeVar),
                       !.mathToCodeVars =
                           [ k \in DOMAIN @ \cup {tok} |->
                               IF k = tok THEN codeVar ELSE @[k] ],
                       !.codeToMathVars =
                           [ k \in DOMAIN @ \cup {codeVar} |->
                               IF k = codeVar THEN tok ELSE @[k] ] ]
    IN [ r1 EXCEPT !.data = Append(@, r1.mathToCodeVars[tok]) ]

ScanVariable ==
    /\ pc = "scan" /\ i <= Len(filteredProp)
    /\ token \notin OperatorSymbols \cup {"(", ")"}
    /\ rpn' = withVariable(rpn, token)
    /\ i' = i + 1
    /\ UNCHANGED <<proposition, filteredProp, pc, pendingOperations, parenLevel, tableVars>>

FinalDrainThrows ==
    /\ pc = "scan" /\ i > Len(filteredProp)
    /\ ~defined(pendingOperations, parenLevel)
    /\ pc' = "threw"
    /\ UNCHANGED <<compilerVars, tableVars>>

\* the final drain taking the stack of level 0 whatever the level reached
FinalDrainLevelZero ==
    /\ pc = "scan" /\ i > Len(filteredProp)
    /\ defined(pendingOperations, parenLevel)
    /\ rpn' = [rpn EXCEPT !.data = @ \o Reverse(pendingOperations[0])]
    /\ pendingOperations' = assign(pendingOperations, 0, <<>>)
    /\ pc' = "returned"
    /\ UNCHANGED <<proposition, filteredProp, i, parenLevel, tableVars>>

FinalDrain ==
    /\ pc = "scan" /\ i > Len(filteredProp)
    /\ defined(pendingOperations, parenLevel)
    /\ rpn' = [rpn EXCEPT !.data = @ \o Reverse(pendingOperations[parenLevel])]
    /\ pendingOperations' = assign(pendingOperations, parenLevel, <<>>)
    /\ pc' = "returned"
    /\ UNCHANGED <<proposition, filteredProp, i, parenLevel, tableVars>>

----------------------------------------------------------------------------
(* generateTruthTable *)

\* the value Array.prototype.pop returns on an empty array
undefined == -1

pop(stack) == IF Len(stack) > 0 THEN Last(stack) ELSE undefined
afterPop(stack) == IF Len(stack) > 0 THEN Front(stack) ELSE stack

\* ToInt32 of an operand of a bitwise operator
ToInt32(x) == IF x = undefined THEN 0 ELSE x

\* truthiness of a value in a condition or under !
truthy(x) == x # undefined /\ x # 0

Number(b) == IF b THEN 1 ELSE 0

RECURSIVE bitAnd(_, _)
bitAnd(a, b) ==
    IF a = 0 \/ b = 0 THEN 0
    ELSE (IF a % 2 = 1 /\ b % 2 = 1 THEN 1 ELSE 0) + 2 * bitAnd(a \div 2, b \div 2)

RECURSIVE bitOr(_, _)
bitOr(a, b) ==
    IF a = 0 /\ b = 0 THEN 0
    ELSE (IF a % 2 = 1 \/ b % 2 = 1 THEN 1 ELSE 0) + 2 * bitOr(a \div 2, b \div 2)

RECURSIVE bitXor(_, _)
bitXor(a, b) ==
    IF a = 0 /\ b = 0 THEN 0
    ELSE (IF a % 2 # b % 2 THEN 1 ELSE 0) + 2 * bitXor(a \div 2, b \div 2)

\* the switch with the operands of the implication exchanged
computeSwapped(tok, lhs, rhs) ==
    CASE tok = "~" -> Number(~truthy(rhs))
      [] tok = "&" -> bitAnd(ToInt32(lhs), ToInt32(rhs))
      [] tok = "|" -> bitOr(ToInt32(lhs), ToInt32(rhs))
      [] tok = "^" -> bitXor(ToInt32(lhs), ToInt32(rhs))
      [] tok = ">" -> IF truthy(rhs) /\ ~truthy(lhs) THEN 0 ELSE 1
      [] tok = "<" -> Number(lhs = rhs)
      [] OTHER -> 0

\* the switch of the numeric pass: lhs is the second value popped, rhs the first
\* (for "~" only rhs is popped)
compute(tok, lhs, rhs) ==
    CASE tok = "~" -> Number(~truthy(rhs))
      [] tok = "&" -> bitAnd(ToInt32(lhs), ToInt32(rhs))
      [] tok = "|" -> bitOr(ToInt32(lhs), ToInt32(rhs))
      [] tok = "^" -> bitXor(ToInt32(lhs), ToInt32(rhs))
      [] tok = ">" -> IF truthy(lhs) /\ ~truthy(rhs) THEN 0 ELSE 1
      [] tok = "<" -> Number(lhs = rhs)
      [] OTHER -> 0

\* rpn.codeVars.indexOf(value), 0-based; -1 when absent
indexOf(s, v) ==
    IF \E k \in 1..Len(s) : s[k] = v
    THEN (CHOOSE k \in 1..Len(s) : s[k] = v /\ \A j \in 1..(k - 1) : s[j] # v) - 1
    ELSE -1

includes(s, v) == \E k \in 1..Len(s) : s[k] = v

\* a label popped from the simulated stack; an empty stack gives undefined,
\* which string concatenation prints as "undefined"
popLabel(stack) == IF Len(stack) > 0 THEN Last(stack) ELSE <<"undefined">>

\* the symbolic replay: the labels of the operator steps of r.data[k..],
\* appended to labels
RECURSIVE simulate(_, _, _, _)
simulate(r, k, stack, labels) ==
    IF k > Len(r.data) THEN labels
    ELSE LET tok == r.data[k] IN
         IF tok \in OperatorSymbols
         THEN IF tok = "~"
              THEN LET operation == <<"\\overline{">> \o popLabel(stack) \o <<"}">>
                   IN simulate(r, k + 1, Append(afterPop(stack), operation),
                               Append(labels, operation))
              ELSE LET rhs == popLabel(stack)
                       s1 == afterPop(stack)
                       operation == popLabel(s1) \o <<latex(tok)>> \o rhs
                   IN simulate(r, k + 1, Append(afterPop(s1), operation),
                               Append(labels, operation))
         ELSE simulate(r, k + 1, Append(stack, <<r.codeToMathVars[tok]>>), labels)

\* keys that are canonical array indices, which Object.keys lists first,
\* in ascending numeric order
IntegerKeys == <<"0", "1", "2", "3", "4", "5", "6", "7", "8", "9">>

RECURSIVE select(_, _)
select(s, keep) ==
    IF s = <<>> THEN <<>>
    ELSE (IF Head(s) \in keep THEN <<Head(s)>> ELSE <<>>) \o select(Tail(s), keep)

Range(s) == { s[k] : k \in 1..Len(s) }

\* Object.keys(rpn.mathToCodeVars): integer keys ascending, then the other
\* keys in insertion order (the order of codeVars)
objectKeys(r) ==
    LET inserted == [ k \in 1..Len(r.codeVars) |-> r.codeToMathVars[r.codeVars[k]] ]
    IN select(IntegerKeys, Range(inserted))
         \o select(inserted, Range(inserted) \ Range(IntegerKeys))

\* rpn.data with each code variable replaced by its index in codeVars; an
\* element is the pair of its typeof and its value
converted(r) ==
    [ k \in 1..Len(r.data) |->
        IF includes(r.codeVars, r.data[k])
        THEN <<"number", indexOf(r.codeVars, r.data[k])>>
        ELSE <<"string", r.data[k]>> ]

typeof(tok) == tok[1]
valueOf(tok) == tok[2]

RECURSIVE pow2(_)
pow2(n) == IF n = 0 THEN 1 ELSE 2 * pow2(n - 1)

\* Array(n).fill(1)
initialValuesOnes(n) == [ k \in 1..n |-> 1 ]

\* Array(n).fill(0)
initialValues(n) == [ k \in 1..n |-> 0 ]

\* the header lines, the converted program and the zero-filled values array
TableHeader ==
    /\ pc = "returned"
    /\ header' = [ variables |-> objectKeys(rpn), labels |-> simulate(rpn, 1, <<>>, <<>>) ]
    /\ convertedRPNData' = converted(rpn)
    /\ values' = initialValues(rpn.variableCount)
    /\ runNumber' = 0
    /\ pc' = "row"
    /\ UNCHANGED <<compilerVars, operatingStack, tokIdx, row, table>>

\* the toggling loop with the exponent off by one
toggledOffByOne(vals, run, n) ==
    [ k \in 1..n |->
        IF run % pow2(n - (k - 1)) = 0 THEN Number(~truthy(vals[k])) ELSE vals[k] ]

\* values after the toggling loop of run number run
toggled(vals, run, n) ==
    [ k \in 1..n |->
        IF run % pow2(n - (k - 1) - 1) = 0 THEN Number(~truthy(vals[k])) ELSE vals[k] ]

StartRow ==
    /\ pc = "row" /\ runNumber < pow2(rpn.variableCount)
    /\ values' = toggled(values, runNumber, rpn.variableCount)
    /\ operatingStack' = <<>>
    /\ row' = [ assignment |-> values', computed |-> <<>> ]
    /\ tokIdx' = 1
    /\ pc' = "eval"
    /\ UNCHANGED <<compilerVars, header, convertedRPNData, runNumber, table>>

EvalVariable ==
    /\ pc = "eval" /\ tokIdx <= Len(convertedRPNData)
    /\ typeof(convertedRPNData[tokIdx]) = "number"
    /\ operatingStack' =
           Append(operatingStack, values[valueOf(convertedRPNData[tokIdx]) + 1])
    /\ tokIdx' = tokIdx + 1
    /\ UNCHANGED <<compilerVars, pc, header, convertedRPNData, values, runNumber, row, table>>

EvalOperator ==
    /\ pc = "eval" /\ tokIdx <= Len(convertedRPNData)
    /\ typeof(convertedRPNData[tokIdx]) # "number"
    /\ LET tok == valueOf(convertedRPNData[tokIdx])
           rhs == pop(operatingStack)
           s1 == afterPop(operatingStack)
           lhs == IF tok = "~" THEN undefined ELSE pop(s1)
           s2 == IF tok = "~" THEN s1 ELSE afterPop(s1)
           value == compute(tok, lhs, rhs)
       IN /\ row' = [row EXCEPT !.computed = Append(@, value)]
          /\ operatingStack' = Append(s2, value)
    /\ tokIdx' = tokIdx + 1
    /\ UNCHANGED <<compilerVars, pc, header, convertedRPNData, values, runNumber, table>>

EndRow ==
    /\ pc = "eval" /\ tokIdx > Len(convertedRPNData)
    /\ table' = Append(table, row)
    /\ runNumber' = runNumber + 1
    /\ pc' = "row"
    /\ UNCHANGED <<compilerVars, header, convertedRPNData, values, operatingStack, tokIdx, row>>

ReturnTable ==
    /\ pc = "row" /\ runNumber >= pow2(rpn.variableCount)
    /\ pc' = "done"
    /\ UNCHANGED <<compilerVars, tableVars>>

Next ==
    \/ ScanOpenParen
    \/ ScanCloseParenThrows
    \/ ScanCloseParen
    \/ ScanOperatorFirst
    \/ ScanOperator
    \/ ScanVariable
    \/ FinalDrainThrows
    \/ FinalDrain
    \/ TableHeader
    \/ StartRow
    \/ EvalVariable
    \/ EvalOperator
    \/ EndRow
    \/ ReturnTable

Spec == Init /\ [][Next]_vars

----------------------------------------------------------------------------
(* Vocabulary of the properties *)

BinarySymbols == OperatorSymbols \ {"~"}
Parentheses == {"(", ")"}

isVariable(c) == c \notin OperatorSymbols \cup Parentheses

\* the part of filteredProp the scan has consumed
scanned == SubSeq(filteredProp, 1, i - 1)

\* generateRPN has returned its program
returned == pc \notin {"scan", "threw"}

\* a proposition of the grammar  E ::= U (binary U)*,  U ::= ~U | (E) | variable:
\* parseE and parseU give the position after the phrase, or 0 when there is none
RECURSIVE parseE(_, _), parseU(_, _), parseRest(_, _)
parseU(s, k) ==
    IF k > Len(s) THEN 0
    ELSE IF s[k] = "~" THEN parseU(s, k + 1)
    ELSE IF s[k] = "("
         THEN LET e == parseE(s, k + 1)
              IN IF e # 0 /\ e <= Len(s) /\ s[e] = ")" THEN e + 1 ELSE 0
    ELSE IF isVariable(s[k]) THEN k + 1
    ELSE 0

parseRest(s, k) ==
    IF k <= Len(s) /\ s[k] \in BinarySymbols
    THEN LET u == parseU(s, k + 1) IN IF u = 0 THEN 0 ELSE parseRest(s, u)
    ELSE k

parseE(s, k) ==
    LET u == parseU(s, k) IN IF u = 0 THEN 0 ELSE parseRest(s, u)

WellFormed(s) == parseE(s, 1) = Len(s) + 1

\* nesting depth after the first k characters of s
RECURSIVE depth(_, _)
depth(s, k) ==
    IF k = 0 THEN 0
    ELSE depth(s, k - 1)
           + (IF s[k] = "(" THEN 1 ELSE IF s[k] = ")" THEN -1 ELSE 0)

Balanced(s) ==
    /\ \A k \in 0..Len(s) : depth(s, k) >= 0
    /\ depth(s, Len(s)) = 0

count(s, c) == Cardinality({ k \in 1..Len(s) : s[k] = c })

arity(op) == IF op = "~" THEN 1 ELSE 2

\* the numeric pass is at an operator token
atOperator ==
    /\ pc = "eval"
    /\ tokIdx <= Len(convertedRPNData)
    /\ typeof(convertedRPNData[tokIdx]) = "string"

----------------------------------------------------------------------------
(* C1 *)

\* the numeric pass finds the operands of every operator on the stack and
\* ends a row with exactly one value
EvaluatesAsPostfix ==
    /\ atOperator =>
           Len(operatingStack) >= arity(valueOf(convertedRPNData[tokIdx]))
    /\ (pc = "eval" /\ tokIdx > Len(convertedRPNData)) => Len(operatingStack) = 1

\* C1: for every well-formed proposition generateRPN returns a program (it
\* does not throw) whose left-to-right stack evaluation never pops an empty
\* stack at an operator and leaves exactly one value after the last token.
C1_WellFormedGivesPostfix ==
    WellFormed(filteredProp) => (pc # "threw" /\ EvaluatesAsPostfix)

----------------------------------------------------------------------------
(* C2, C3 *)

\* bit b of r (bit 0 the least significant)
bit(r, b) == (r \div pow2(b)) % 2

\* C2: a finished table has exactly 2^N data rows and their assignments are
\* pairwise distinct (so each of the 2^N assignments appears exactly once);
\* while the table is built it holds one row per finished run.
C2_RowsAreAllAssignments ==
    /\ pc \in {"row", "eval", "done"} =>
           /\ Len(table) = runNumber
           /\ \A a, b \in 1..Len(table) :
                  table[a].assignment = table[b].assignment => a = b
           /\ \A a \in 1..Len(table) :
                  table[a].assignment \in [1..rpn.variableCount -> {0, 1}]
    /\ pc = "done" => Len(table) = pow2(rpn.variableCount)

C2_Witness ==
    pc = "done" /\ rpn.variableCount = 3 /\ Len(table) = 8

\* C3: in run r the value of the variable at 0-based position j is the
\* complement of bit N-j-1 of r, in the values array of the running row and in
\* every emitted row; row 0 is all-true and row 2^N-1 all-false.
C3_RowIsComplementOfRunNumber ==
    LET N == rpn.variableCount IN
    /\ pc = "eval" =>
           \A j \in 0..(N - 1) : values[j + 1] = 1 - bit(runNumber, N - j - 1)
    /\ \A r \in 0..(Len(table) - 1) :
           /\ \A j \in 0..(N - 1) :
                  table[r + 1].assignment[j + 1] = 1 - bit(r, N - j - 1)
           /\ r = 0 => \A j \in 1..N : table[r + 1].assignment[j] = 1
           /\ r = pow2(N) - 1 => \A j \in 1..N : table[r + 1].assignment[j] = 0

C3_Witness ==
    /\ pc = "done" /\ rpn.variableCount = 3
    /\ table[1].assignment = <<1, 1, 1>>
    /\ table[3].assignment = <<1, 0, 1>>
    /\ table[8].assignment = <<0, 0, 0>>

----------------------------------------------------------------------------
(* C4 *)

UnmatchedOpen == <<"(", "p", "&", "q">>

\* C4 as stated: compiling (p&q ends in an error; no program is returned and
\* no table is rendered from it.
C4_UnmatchedOpenIsRejected ==
    proposition = UnmatchedOpen => ~returned

\* C4 as amended: compiling (p&q raises no error; generateRPN returns the
\* program [var1, var2, &] and the four-row table is rendered from it.
C4_UnmatchedOpenIsCompiled ==
    proposition = UnmatchedOpen =>
        /\ pc # "threw"
        /\ returned => rpn.data = <<"var1", "var2", "&">>
        /\ pc = "done" => Len(table) = 4

C4_Witness ==
    proposition = UnmatchedOpen /\ pc = "done" /\ parenLevel = 1

----------------------------------------------------------------------------
(* C5 *)

\* the value the claim gives for an operator on operands of {0, 1}
truthTable(op, left, right) ==
    CASE op = "~" -> 1 - right
      [] op = "&" -> IF left = 1 /\ right = 1 THEN 1 ELSE 0
      [] op = "|" -> IF left = 0 /\ right = 0 THEN 0 ELSE 1
      [] op = "^" -> IF left # right THEN 1 ELSE 0
      [] op = ">" -> IF left = 1 /\ right = 0 THEN 0 ELSE 1
      [] op = "<" -> IF left = right THEN 1 ELSE 0

\* an operator step of the numeric pass whose operands are on the stack takes
\* the right operand from the top and the left operand below it, and pushes
\* and records the value of the truth table
OperatorStepFollowsTruthTable ==
    atOperator =>
        LET op == valueOf(convertedRPNData[tokIdx])
            n == Len(operatingStack)
        IN n >= arity(op) =>
               LET right == operatingStack[n]
                   left == IF arity(op) = 2 THEN operatingStack[n - 1] ELSE right
                   expected == truthTable(op, left, right)
               IN /\ expected \in {0, 1}
                  /\ operatingStack' =
                         Append(SubSeq(operatingStack, 1, n - arity(op)), expected)
                  /\ row'.computed = Append(row.computed, expected)

\* C5: on operands of {0, 1}, right operand popped first, the evaluator
\* computes ~x = 1-x, & = 1 iff both 1, | = 0 iff both 0, ^ = 1 iff they
\* differ, > = 0 iff left = 1 and right = 0, < = 1 iff equal; the result is 0
\* or 1 and is pushed back (the stack only ever holds 0 and 1).
C5_EvaluatorTruthTables ==
    /\ [](\A k \in 1..Len(operatingStack) : operatingStack[k] \in {0, 1})
    /\ [][OperatorStepFollowsTruthTable]_vars

\* an implication with left = 1 and right = 0 has just been evaluated to 0
C5_Witness ==
    /\ pc = "eval" /\ tokIdx > 3
    /\ convertedRPNData[tokIdx - 1] = <<"string", ">">>
    /\ typeof(convertedRPNData[tokIdx - 2]) = "number"
    /\ typeof(convertedRPNData[tokIdx - 3]) = "number"
    /\ values[valueOf(convertedRPNData[tokIdx - 3]) + 1] = 1
    /\ values[valueOf(convertedRPNData[tokIdx - 2]) + 1] = 0
    /\ Last(operatingStack) = 0

----------------------------------------------------------------------------
(* C6 *)

WorkedProgram ==
    <<"var1", "var2", "&", "var3", "var4", ">", "~", "|", "var5", "var2", "~",
      "var4", "~", "^", "|", "<">>

WorkedAssignment == <<1, 0, 1, 0, 1>>

\* C6: for p&q|~(r>s)<t|(~q^~s) generateRPN returns
\* [p, q, &, r, s, >, ~, |, t, q, ~, s, ~, ^, |, <] with var1..var5 standing
\* for p, q, r, s, t, and the row p=T, q=F, r=T, s=F, t=T ends in true.
C6_WorkedExample ==
    proposition = WorkedExample =>
        /\ pc # "threw"
        /\ returned =>
               /\ rpn.data = WorkedProgram
               /\ rpn.codeVars = <<"var1", "var2", "var3", "var4", "var5">>
               /\ [ k \in 1..5 |-> rpn.codeToMathVars[rpn.codeVars[k]] ]
                      = <<"p", "q", "r", "s", "t">>
        /\ \A r \in 1..Len(table) :
               table[r].assignment = WorkedAssignment =>
                   /\ Len(table[r].computed) = 9
                   /\ Last(table[r].computed) = 1
        /\ pc = "done" =>
               \E r \in 1..Len(table) : table[r].assignment = WorkedAssignment

C6_Witness ==
    /\ proposition = WorkedExample /\ pc = "done"
    /\ table[11].assignment = WorkedAssignment
    /\ Last(table[11].computed) = 1

----------------------------------------------------------------------------
(* C7 *)

\* the distinct variable characters of s in first-occurrence order
RECURSIVE firstOccurrences(_)
firstOccurrences(s) ==
    IF s = <<>> THEN <<>>
    ELSE LET f == firstOccurrences(Front(s))
             c == Last(s)
         IN IF isVariable(c) /\ c \notin Range(f) THEN Append(f, c) ELSE f

\* the elements of s that satisfy no membership in drop, in order
RECURSIVE without(_, _)
without(s, drop) ==
    IF s = <<>> THEN <<>>
    ELSE (IF Head(s) \in drop THEN <<>> ELSE <<Head(s)>>) \o without(Tail(s), drop)

----------------------------------------------------------------------------
(* C8 *)

\* the scan is at a ) that closes a level above 0 for which no stack exists:
\* no operator was pushed at the level since it was first opened
atCloseOfFreshLevel ==
    /\ pc = "scan" /\ i <= Len(filteredProp)
    /\ token = ")"
    /\ parenLevel > 0
    /\ ~defined(pendingOperations, parenLevel)

FreshLevelExamples ==
    { <<"(", "p", ")">>,
      <<"(", "p", ")", "&", "q">>,
      <<"(", "(", "p", "&", "q", ")", ")">> }

\* C8: a level opened by ( for which no stack exists yet behaves as an empty
\* stack: a ) reached before any operator was pushed at the level emits
\* nothing, decrements the level, and the scan goes on to a normal return
\* (as in (p), (p)&q and ((p&q)) ).
C8_FreshLevelActsAsEmptyStack ==
    /\ [](filteredProp \in FreshLevelExamples => pc # "threw")
    /\ [][atCloseOfFreshLevel =>
              /\ pc' = "scan"
              /\ rpn'.data = rpn.data
              /\ parenLevel' = parenLevel - 1
              /\ i' = i + 1]_vars

----------------------------------------------------------------------------
(* C9 *)

\* the scan is at an operator token whose level has a non-empty stack
atOperatorOnNonEmptyStack ==
    /\ pc = "scan" /\ i <= Len(filteredProp)
    /\ token \in OperatorSymbols
    /\ defined(pendingOperations, parenLevel)
    /\ Len(pendingOperations[parenLevel]) > 0

\* the step pops and emits the maximal run of top operators of strictly higher
\* precedence than the token, top first, and pushes the token on what is left
PopsMaximalStrictlyHigherRun ==
    atOperatorOnNonEmptyStack =>
        LET stack == pendingOperations[parenLevel]
            L == Len(stack)
            higher(m) ==
                \A j \in (L - m + 1)..L : priority(stack[j]) > priority(token)
            n == CHOOSE m \in 0..L : higher(m) /\ (m < L => ~higher(m + 1))
        IN /\ rpn'.data = rpn.data \o [ k \in 1..n |-> stack[L - k + 1] ]
           /\ pendingOperations'[parenLevel] = Append(SubSeq(stack, 1, L - n), token)
           /\ \A j \in 1..(L - n) :
                  priority(stack[j]) <= priority(token) =>
                      pendingOperations'[parenLevel][j] = stack[j]

\* v op v op ... v with binary operators of one precedence and no parentheses
EqualPrecedenceChain(s) ==
    /\ Len(s) >= 3 /\ Len(s) % 2 = 1
    /\ \A k \in 1..Len(s) :
           IF k % 2 = 1 THEN isVariable(s[k]) ELSE s[k] \in BinarySymbols
    /\ \A a, b \in 1..Len(s) :
           (a % 2 = 0 /\ b % 2 = 0) => priority(s[a]) = priority(s[b])

\* the operands of the chain in order, then its operators in reverse order
ChainProgram(s) ==
    LET k == (Len(s) - 1) \div 2
    IN [ j \in 1..(k + 1) |-> rpn.mathToCodeVars[s[2 * j - 1]] ]
         \o [ j \in 1..k |-> s[2 * (k - j + 1)] ]

\* C9: an operator token on a non-empty stack pops and emits exactly the
\* maximal run of top operators of strictly greater precedence, then is
\* pushed; equal or lower precedence is never popped by it, so a chain of
\* equal-precedence binary operators comes out as its operands followed by
\* its operators in reverse order (p>q>r gives [p, q, r, >, >]).
C9_StrictPrecedencePop ==
    /\ []((returned /\ EqualPrecedenceChain(filteredProp)) =>
              rpn.data = ChainProgram(filteredProp))
    /\ [][PopsMaximalStrictlyHigherRun]_vars

C9_Witness ==
    /\ pc = "returned"
    /\ filteredProp = <<"p", ">", "q", ">", "r">>
    /\ rpn.data = <<"var1", "var2", "var3", ">", ">">>

----------------------------------------------------------------------------
(* C10 *)

\* C10: on an input with balanced parentheses, at every scan position the
\* stacks of the levels deeper than the current one are empty; when
\* generateRPN has returned every stack is empty and every operator character
\* of the input is in the program exactly as often as in the input.
C10_StacksDrained ==
    Balanced(filteredProp) =>
        /\ \A l \in DOMAIN pendingOperations :
               l > parenLevel => pendingOperations[l] = <<>>
        /\ returned =>
               /\ \A l \in DOMAIN pendingOperations : pendingOperations[l] = <<>>
               /\ \A op \in OperatorSymbols :
                      count(rpn.data, op) = count(filteredProp, op)

\* a returned program of a balanced input that pushed two operators at level 1
\* and kept one pending at level 0 meanwhile
C10_Witness ==
    /\ pc = "returned"
    /\ Balanced(filteredProp)
    /\ defined(pendingOperations, 1)
    /\ \E k \in 1..(Len(filteredProp) - 1) :
           /\ depth(filteredProp, k) = 1
           /\ filteredProp[k] \in OperatorSymbols
           /\ filteredProp[k + 1] \in OperatorSymbols
    /\ \E k \in 1..Len(filteredProp) :
           depth(filteredProp, k) = 0 /\ filteredProp[k] \in OperatorSymbols
                /\ k < Len(filteredProp) /\ filteredProp[k + 1] = "("

----------------------------------------------------------------------------
(* C11 *)

\* the scan has consumed the whole input and stopped above level 0
scanEndedUnclosed == i > Len(filteredProp) /\ parenLevel > 0

\* occurrences of op in the stacks of the levels below level
RECURSIVE pendingBelow(_, _, _)
pendingBelow(po, levels, op) ==
    IF levels = {} THEN 0
    ELSE LET l == CHOOSE x \in levels : TRUE
         IN count(po[l], op) + pendingBelow(po, levels \ {l}, op)

\* after the return only the operators left on lower levels are missing from
\* the program, and the stack of the final level is empty
OnlyFinalLevelDrained ==
    /\ pendingOperations[parenLevel] = <<>>
    /\ \A op \in OperatorSymbols :
           count(rpn.data, op) =
               count(filteredProp, op)
                 - pendingBelow(pendingOperations,
                                { l \in DOMAIN pendingOperations : l < parenLevel }, op)

UnclosedExample == <<"p", "&", "(", "q", "|", "r">>

\* C11: whenever the scan ends at a nesting level above 0, generateRPN returns
\* a program; it has drained only the stack of the final level and the
\* operators still pending at lower levels are not in the output: p&(q|r
\* yields [p, q, r, |] without the &.
C11_UnclosedLevelsReturnFinalDrainOnly ==
    scanEndedUnclosed =>
        /\ pc # "threw"
        /\ returned =>
               /\ OnlyFinalLevelDrained
               /\ filteredProp = UnclosedExample =>
                      rpn.data = <<"var1", "var2", "var3", "|">>

----------------------------------------------------------------------------
(* C12 *)

\* the table has its header
headerBuilt == pc \in {"row", "eval", "done"}

\* the variable symbols in the order of the truth values of a row: values[k]
\* is the value of the variable codeVars[k]
rowVariables ==
    [ k \in 1..Len(rpn.codeVars) |-> rpn.codeToMathVars[rpn.codeVars[k]] ]

\* the operator tokens of the program, in order
programOperators == without(rpn.data, Range(rpn.data) \ OperatorSymbols)

\* what a label shows of the operator that produced it
showsOperator(label, op) ==
    IF op = "~"
    THEN Head(label) = "\\overline{" /\ Last(label) = "}"
    ELSE \E k \in 1..Len(label) : label[k] = latex(op)

\* label j and computed value j of every row come from the j-th operator
\* token of the program: a running row has one value per operator token passed
LabelsMatchComputedValues ==
    /\ Len(header.labels) = Len(programOperators)
    /\ \A j \in 1..Len(header.labels) :
           showsOperator(header.labels[j], programOperators[j])
    /\ \A r \in 1..Len(table) :
           Len(table[r].computed) = Len(header.labels)
    /\ pc = "eval" =>
           Len(row.computed) =
               Cardinality({ k \in 1..(tokIdx - 1) :
                               typeof(convertedRPNData[k]) = "string" })

\* the i-th symbol of the header is the variable of the i-th truth value
HeaderVariablesMatchRowValues ==
    /\ header.variables = rowVariables
    /\ rowVariables = firstOccurrences(filteredProp)
    /\ \A r \in 1..Len(table) :
           Len(table[r].assignment) = Len(header.variables)

\* C12: header and data rows are in the same left-to-right order whatever
\* characters serve as variables: the i-th variable symbol of the header is
\* the variable whose value is the i-th truth value of each row
\* (first-occurrence order), and the j-th label is the label of the j-th
\* computed value of each row, with as many labels as computed values.
C12_HeaderOrderMatchesRows ==
    headerBuilt => (HeaderVariablesMatchRowValues /\ LabelsMatchComputedValues)

----------------------------------------------------------------------------
(* C13 *)

\* precedence of the binary operators in the reference parser
refLevel(op) ==
    CASE op = "<" -> 1
      [] op = ">" -> 2
      [] op = "|" -> 3
      [] op = "^" -> 3
      [] op = "&" -> 4

\* the reference parser and evaluator: the value under assignment a of the
\* phrase of s that starts at k, and the position after it.  refBinary reads
\* a phrase whose binary operators have level lvl or more, grouping operators
\* of one level from right to left; refUnary reads ~U, (E) or a variable.
RECURSIVE refBinary(_, _, _, _), refUnary(_, _, _)
refUnary(s, k, a) ==
    IF s[k] = "~"
    THEN LET u == refUnary(s, k + 1, a) IN [ v |-> 1 - u.v, k |-> u.k ]
    ELSE IF s[k] = "("
         THEN LET e == refBinary(s, k + 1, 1, a) IN [ v |-> e.v, k |-> e.k + 1 ]
    ELSE [ v |-> a[s[k]], k |-> k + 1 ]

refBinary(s, k, lvl, a) ==
    IF lvl > 4 THEN refUnary(s, k, a)
    ELSE LET left == refBinary(s, k, lvl + 1, a)
         IN IF left.k <= Len(s) /\ s[left.k] \in BinarySymbols
            THEN IF refLevel(s[left.k]) = lvl
                 THEN LET right == refBinary(s, left.k + 1, lvl, a)
                      IN [ v |-> truthTable(s[left.k], left.v, right.v),
                           k |-> right.k ]
                 ELSE left
            ELSE left

refValue(s, a) == refBinary(s, 1, 1, a).v

\* position of the ) that closes the ( at position k of a well-formed s
closing(s, k) ==
    CHOOSE m \in (k + 1)..Len(s) :
        /\ depth(s, m) = depth(s, k) - 1
        /\ \A j \in (k + 1)..(m - 1) : depth(s, j) >= depth(s, k)

\* every parenthesized group has an operator directly at its own level
GroupsHaveOperator(s) ==
    \A k \in 1..Len(s) :
        s[k] = "(" =>
            \E j \in (k + 1)..(closing(s, k) - 1) :
                s[j] \in OperatorSymbols /\ depth(s, j) = depth(s, k)

\* the assignment of a row, by variable symbol
assignmentOf(r) ==
    LET f == firstOccurrences(filteredProp)
    IN [ c \in Range(f) |-> r.assignment[CHOOSE k \in 1..Len(f) : f[k] = c] ]

\* the last value of a data row
lastValue(r) == Last(r.assignment \o r.computed)

\* C13: for a well-formed proposition whose parenthesized groups each have an
\* operator directly at their own level, generateRPN returns and the last
\* value of every data row is the value, under the row's assignment, that the
\* reference parser (~ above & above | and ^ above > above <, prefix ~,
\* equal precedence grouped from right to left) gives the proposition.
C13_RowsAgreeWithReferenceParser ==
    (WellFormed(filteredProp) /\ GroupsHaveOperator(filteredProp)) =>
        /\ pc # "threw"
        /\ \A r \in 1..Len(table) :
               lastValue(table[r]) = refValue(filteredProp, assignmentOf(table[r]))

\* p>q>r under p=F, q=T, r=F is true only when grouped from the right
C13_Witness ==
    /\ pc = "done"
    /\ filteredProp = <<"p", ">", "q", ">", "r">>
    /\ table[6].assignment = <<0, 1, 0>>
    /\ lastValue(table[6]) = 1

====
